---- MODULE Spec2Model ----
(***************************************************************************)
(* Model of src/device_ids.rs of bose-dfu: the device registry, the        *)
(* classifier identify_device and the text rendering of UsbId.             *)
(*                                                                         *)
(* identify_device scans COMPATIBLE_DEVICES, a table of DeviceIds that the *)
(* source file uses but does not define (it defines KNOWN_DEVICES, a list  *)
(* of bare UsbId).  The table is therefore a variable fixed at Init to any *)
(* sequence of bose_dev entries over the product ids of KNOWN_DEVICES, so  *)
(* that everything checked of identify_device is checked for every such    *)
(* table.                                                                  *)
(*                                                                         *)
(* Numbers are written in decimal; the hexadecimal value of the source is  *)
(* given in a comment.                                                     *)
(***************************************************************************)
EXTENDS Integers, Sequences, FiniteSets

VARIABLES COMPATIBLE_DEVICES, op, id, usage_page, compat, text

vars == <<COMPATIBLE_DEVICES, op, id, usage_page, compat, text>>

\* const BOSE_VID: u16 = 0x05a7
BOSE_VID == 1447

\* const BOSE_HID_USAGE_PAGE: u16 = 0xff00
BOSE_HID_USAGE_PAGE == 65280

\* Largest number of entries of the compatible-device table explored.
MaxEntries == 2

U16 == 0..65535

\* struct UsbId { vid: u16, pid: u16 }
UsbId(v, p) == [vid |-> v, pid |-> p]

\* const fn bose_pid(pid: u16) -> UsbId
bose_pid(pid) == UsbId(BOSE_VID, pid)

\* const fn bose_dev(normal_pid: u16, dfu_pid: u16) -> DeviceIds
bose_dev(normal_pid, dfu_pid) ==
    [normal_mode |-> UsbId(BOSE_VID, normal_pid),
     dfu_mode    |-> UsbId(BOSE_VID, dfu_pid)]

\* pub const KNOWN_DEVICES: &[UsbId]  (0x40fe, 0x1020, 0x1021, 0x1022)
KNOWN_DEVICES ==
    <<bose_pid(16638), bose_pid(4128), bose_pid(4129), bose_pid(4130)>>

\* const INCOMPATIBLE_DEVICES: &[UsbId]  (0x40fc)
INCOMPATIBLE_DEVICES == <<bose_pid(16636)>>

\* enum DeviceMode { Normal, Dfu, Unknown }
DeviceMode == {"Normal", "Dfu", "Unknown"}

\* Option<DeviceMode>::None
None == "None"

\* enum DeviceCompat { Compatible(DeviceMode), Untested(DeviceMode), Incompatible }
Compatible(mode) == [tag |-> "Compatible", mode |-> mode]
Untested(mode) == [tag |-> "Untested", mode |-> mode]
Incompatible == [tag |-> "Incompatible", mode |-> None]

DeviceCompat ==
    {Compatible(m) : m \in DeviceMode} \cup {Untested(m) : m \in DeviceMode}
        \cup {Incompatible}

\* <[T]>::contains
contains(s, x) == \E i \in DOMAIN s : s[i] = x

----
\* The tables COMPATIBLE_DEVICES may be: every sequence of at most MaxEntries
\* DeviceIds built by bose_dev from the product ids of KNOWN_DEVICES.
KnownPids == {KNOWN_DEVICES[i].pid : i \in DOMAIN KNOWN_DEVICES}

DeviceIdsEntries == {bose_dev(n, d) : n \in KnownPids, d \in KnownPids}

CompatibleTables ==
    UNION {[1..n -> DeviceIdsEntries] : n \in 0..MaxEntries}

----
\* DeviceIds::match_id with the two modes exchanged.
match_id_swapped(self, i) ==
    IF i = self.normal_mode THEN "Dfu"
    ELSE IF i = self.dfu_mode THEN "Normal"
    ELSE None

\* DeviceIds::match_id
match_id(self, i) ==
    IF i = self.normal_mode THEN "Normal"
    ELSE IF i = self.dfu_mode THEN "Dfu"
    ELSE None

\* The loop of identify_device over the table, from entry k on: the mode of
\* the first entry that matches, None when the loop falls through.
RECURSIVE scan_from(_, _, _)
scan_from(table, i, k) ==
    IF k > Len(table) THEN None
    ELSE IF match_id(table[k], i) # None THEN match_id(table[k], i)
    ELSE scan_from(table, i, k + 1)

\* The same loop keeping the last match instead of returning at the first.
RECURSIVE scan_last(_, _, _)
scan_last(table, i, k) ==
    IF k < 1 THEN None
    ELSE IF match_id(table[k], i) # None THEN match_id(table[k], i)
    ELSE scan_last(table, i, k - 1)

lookup_compatible_last(table, i) == scan_last(table, i, Len(table))

\* for candidate in COMPATIBLE_DEVICES { if let Some(mode) = ... }
lookup_compatible(table, i) == scan_from(table, i, 1)

\* The usage-page test that lets every page through.
usage_page_rejected_never(page) == FALSE

\* ![0, BOSE_HID_USAGE_PAGE].contains(&usage_page)
usage_page_rejected(page) == ~ contains(<<0, BOSE_HID_USAGE_PAGE>>, page)

\* The known-incompatible test that finds nothing.
known_incompatible_never(i) == FALSE

\* INCOMPATIBLE_DEVICES.contains(&id)
known_incompatible(i) == contains(INCOMPATIBLE_DEVICES, i)

\* The vendor fallback with its two branches exchanged.
vendor_fallback_swapped(i) ==
    IF i.vid = BOSE_VID THEN Incompatible ELSE Untested("Unknown")

\* The vendor fallback carrying a mode other than Unknown.
vendor_fallback_normal(i) ==
    IF i.vid = BOSE_VID THEN Untested("Normal") ELSE Incompatible

\* The vendor fallback without its test of the vendor id.
vendor_fallback_any(i) == Untested("Unknown")

\* if id.vid == BOSE_VID { Untested(Unknown) } else { Incompatible }
vendor_fallback(i) ==
    IF i.vid = BOSE_VID THEN Untested("Unknown") ELSE Incompatible

\* pub fn identify_device(id: UsbId, usage_page: u16) -> DeviceCompat
identify_device(table, i, page) ==
    IF usage_page_rejected(page) THEN Incompatible
    ELSE IF lookup_compatible(table, i) # None
        THEN Compatible(lookup_compatible(table, i))
    ELSE IF known_incompatible(i) THEN Incompatible
    ELSE vendor_fallback(i)

----
\* The digits of the {:x} format.
HexDigits ==
    <<"0", "1", "2", "3", "4", "5", "6", "7",
      "8", "9", "a", "b", "c", "d", "e", "f">>

\* {:x}: the lowercase hexadecimal digits of n, most significant first, with
\* no leading zero (a single "0" for zero).
RECURSIVE fmt_lower_hex(_)
fmt_lower_hex(n) ==
    IF n < 16 THEN <<HexDigits[n + 1]>>
    ELSE fmt_lower_hex(n \div 16) \o <<HexDigits[(n % 16) + 1]>>

\* The 0 flag with a width: zeros on the left up to the width, nothing cut.
RECURSIVE pad_zero(_, _)
pad_zero(s, width) ==
    IF Len(s) >= width THEN s ELSE pad_zero(<<"0">> \o s, width)

\* {:x} in place of {:04x}: the digits without the padding.
fmt_04x_unpadded(n) == fmt_lower_hex(n)

\* {:04x}
fmt_04x(n) == pad_zero(fmt_lower_hex(n), 4)

\* impl Display for UsbId: write!(f, "{:04x}:{:04x}", self.vid, self.pid)
UsbId_fmt(i) == fmt_04x(i.vid) \o <<":">> \o fmt_04x(i.pid)

----
\* The inputs explored.  Classifier: both vendors against every product id of
\* the two tables, 0x9999 and 0x0001; usage pages 0, 0xff00, 1 and 0xff01.
\* Rendering: ids with leading zeros, letters and the extreme values.
IdentifyVids == {BOSE_VID, 4660}
IdentifyPids == KnownPids \cup {16636, 39321, 1}
UsagePages == {0, BOSE_HID_USAGE_PAGE, 1, 65281}
FmtVids == {0, 10, BOSE_VID, 4660, 43981, 65535}
FmtPids == {0, 255, 4128, 16638, 39321, 65535}

NoCompat == [tag |-> "NoCall", mode |-> None]

Init ==
    /\ COMPATIBLE_DEVICES \in CompatibleTables
    /\ op = "start"
    /\ id = UsbId(0, 0)
    /\ usage_page = 0
    /\ compat = NoCompat
    /\ text = <<>>

\* A call identify_device(i, page).
IdentifyDevice(i, page) ==
    /\ op = "start"
    /\ op' = "identify_device"
    /\ id' = i
    /\ usage_page' = page
    /\ compat' = identify_device(COMPATIBLE_DEVICES, i, page)
    /\ text' = <<>>
    /\ UNCHANGED COMPATIBLE_DEVICES

\* A call of UsbId's Display::fmt on i.
Fmt(i) ==
    /\ op = "start"
    /\ op' = "fmt"
    /\ id' = i
    /\ usage_page' = 0
    /\ compat' = NoCompat
    /\ text' = UsbId_fmt(i)
    /\ UNCHANGED COMPATIBLE_DEVICES

\* The caller has consumed the value returned; the next call may be made.
Return ==
    /\ op # "start"
    /\ op' = "start"
    /\ id' = UsbId(0, 0)
    /\ usage_page' = 0
    /\ compat' = NoCompat
    /\ text' = <<>>
    /\ UNCHANGED COMPATIBLE_DEVICES

Next ==
    \/ \E v \in IdentifyVids, p \in IdentifyPids, page \in UsagePages :
          IdentifyDevice(UsbId(v, p), page)
    \/ \E v \in FmtVids, p \in FmtPids : Fmt(UsbId(v, p))
    \/ Return

Spec == Init /\ [][Next]_vars

TypeOK ==
    /\ COMPATIBLE_DEVICES \in CompatibleTables
    /\ op \in {"start", "identify_device", "fmt"}
    /\ id.vid \in U16 /\ id.pid \in U16
    /\ usage_page \in U16
    /\ compat \in DeviceCompat \cup {NoCompat}
    /\ text \in Seq({HexDigits[k] : k \in DOMAIN HexDigits} \cup {":"})

----
\* Properties.  They are stated on the values a call leaves in the state and
\* on the tables, not through the operators above.

\* i is the normal-mode or the firmware-update-mode identifier of an entry.
IsNormalIdOf(k, i) == i = COMPATIBLE_DEVICES[k].normal_mode
IsDfuIdOf(k, i) == i = COMPATIBLE_DEVICES[k].dfu_mode
Matching(i) ==
    {k \in DOMAIN COMPATIBLE_DEVICES : IsNormalIdOf(k, i) \/ IsDfuIdOf(k, i)}
InCompatibleTable(i) == Matching(i) # {}
InIncompatibleTable(i) ==
    \E k \in DOMAIN INCOMPATIBLE_DEVICES : INCOMPATIBLE_DEVICES[k] = i

Identified == op = "identify_device"
QualifyingPage == usage_page = 0 \/ usage_page = 65280

\* C1: a call with a usage page that is neither 0 nor 0xff00 returns
\* Incompatible whatever the UsbId, also when the UsbId is in the
\* compatible-device table.
C1_UsagePageGate ==
    (Identified /\ ~ QualifyingPage) => compat = Incompatible

C1_Witness ==
    /\ Identified /\ ~ QualifyingPage
    /\ InCompatibleTable(id)
    /\ compat = Incompatible

\* C2: with usage page 0 or 0xff00, a UsbId that is the normal-mode or the
\* firmware-update-mode identifier of some entry is classified Compatible with
\* mode Normal or Dfu; Normal only if it equals the normal-mode field of an
\* entry, Dfu only if it equals the firmware-update-mode field of an entry.
C2_CompatibleMode ==
    (Identified /\ QualifyingPage /\ InCompatibleTable(id)) =>
        /\ compat.tag = "Compatible"
        /\ compat.mode \in {"Normal", "Dfu"}
        /\ compat.mode = "Normal" =>
               \E k \in DOMAIN COMPATIBLE_DEVICES : IsNormalIdOf(k, id)
        /\ compat.mode = "Dfu" =>
               \E k \in DOMAIN COMPATIBLE_DEVICES : IsDfuIdOf(k, id)

C2_Witness ==
    /\ Identified /\ QualifyingPage
    /\ \E k \in DOMAIN COMPATIBLE_DEVICES : IsDfuIdOf(k, id)
    /\ \A k \in DOMAIN COMPATIBLE_DEVICES : ~ IsNormalIdOf(k, id)
    /\ compat = Compatible("Dfu")

C5_VendorUntested ==
    (/\ Identified /\ QualifyingPage
     /\ id.vid = 1447
     /\ ~ InCompatibleTable(id) /\ ~ InIncompatibleTable(id)) =>
        compat = Untested("Unknown")

C5_Witness ==
    /\ Identified /\ QualifyingPage
    /\ id = [vid |-> 1447, pid |-> 39321]
    /\ ~ InCompatibleTable(id) /\ ~ InIncompatibleTable(id)
    /\ compat = Untested("Unknown")

\* C6: a UsbId whose vendor id is not 0x05a7 and that is in neither table is
\* classified Incompatible for every usage page.
C6_ForeignVendor ==
    (/\ Identified
     /\ id.vid # 1447
     /\ ~ InCompatibleTable(id) /\ ~ InIncompatibleTable(id)) =>
        compat = Incompatible

C6_Witness ==
    /\ Identified /\ usage_page = 0
    /\ id = [vid |-> 4660, pid |-> 1]
    /\ compat = Incompatible

\* The value of a sequence of lowercase hexadecimal digits, -1 when a
\* character is no such digit.
HexValueOfChar(c) ==
    CASE c = "0" -> 0 [] c = "1" -> 1 [] c = "2" -> 2 [] c = "3" -> 3
      [] c = "4" -> 4 [] c = "5" -> 5 [] c = "6" -> 6 [] c = "7" -> 7
      [] c = "8" -> 8 [] c = "9" -> 9 [] c = "a" -> 10 [] c = "b" -> 11
      [] c = "c" -> 12 [] c = "d" -> 13 [] c = "e" -> 14 [] c = "f" -> 15
      [] OTHER -> -1

RECURSIVE HexValue(_)
HexValue(s) ==
    IF s = <<>> THEN 0
    ELSE LET high == HexValue(SubSeq(s, 1, Len(s) - 1))
             low == HexValueOfChar(s[Len(s)])
         IN IF high < 0 \/ low < 0 THEN -1 ELSE 16 * high + low

\* C7: the rendering of a UsbId is nine characters: four lowercase
\* hexadecimal digits that read as the vid, a colon, four lowercase
\* hexadecimal digits that read as the pid; 05a7:1020 for vid 0x05a7 and pid
\* 0x1020.
C7_Rendering ==
    op = "fmt" =>
        /\ Len(text) = 9
        /\ text[5] = ":"
        /\ HexValue(SubSeq(text, 1, 4)) = id.vid
        /\ HexValue(SubSeq(text, 6, 9)) = id.pid
        /\ id = [vid |-> 1447, pid |-> 4128] =>
               text = <<"0", "5", "a", "7", ":", "1", "0", "2", "0">>

C7_Witness ==
    /\ op = "fmt"
    /\ id = [vid |-> 10, pid |-> 255]
    /\ text = <<"0", "0", "0", "a", ":", "0", "0", "f", "f">>

\* C8: the value returned is one of Compatible(Normal), Compatible(Dfu),
\* Untested(Unknown) and Incompatible.
C8_ResultShape ==
    Identified =>
        \/ compat.tag = "Compatible" /\ compat.mode \in {"Normal", "Dfu"}
        \/ compat.tag = "Untested" /\ compat.mode = "Unknown"
        \/ compat.tag = "Incompatible"

C8_Witness ==
    /\ Identified
    /\ compat.tag = "Untested" /\ compat.mode = "Unknown"

\* C10: with usage page 0 or 0xff00, the mode returned is the one given by
\* the entry of least index among those having the UsbId as an identifier,
\* and the result is not Compatible only when no entry has it.
C10_FirstMatchWins ==
    (Identified /\ QualifyingPage) =>
        IF Matching(id) = {}
        THEN compat.tag # "Compatible"
        ELSE LET first == CHOOSE k \in Matching(id) :
                              \A j \in Matching(id) : k <= j
             IN compat = [tag |-> "Compatible",
                          mode |-> IF IsNormalIdOf(first, id)
                                   THEN "Normal" ELSE "Dfu"]

C10_Witness ==
    /\ Identified /\ QualifyingPage
    /\ Len(COMPATIBLE_DEVICES) >= 2
    /\ IsDfuIdOf(1, id) /\ ~ IsNormalIdOf(1, id)
    /\ IsNormalIdOf(2, id)
    /\ compat = Compatible("Dfu")

====
